---------------------------- MODULE Spec2Model ----------------------------
(***************************************************************************)
(* Model of entries_utility.py: the DSL parser of one entry, the batch     *)
(* parser of command-line tokens, the TSV codec, the tag-hierarchy          *)
(* validator and resolver, and the sequence-number assigner.                *)
(*                                                                          *)
(* A Python str is modelled as a sequence of characters, each character a   *)
(* one-element TLA+ string; a Python list is a sequence; a dict with a      *)
(* fixed set of keys is a record.  Every function of the source is an       *)
(* operator computed the way the source computes it, and every              *)
(* specification below draws the function's input in Init and applies the   *)
(* function in one action (fix_tag_hierarchy, whose termination is at       *)
(* stake, is also modelled loop iteration by loop iteration).               *)
(***************************************************************************)
EXTENDS Naturals, Integers, Sequences, FiniteSets, TLC

VARIABLES
    pc,             \* position of the caller: "call", "done", or a loop label
    string,         \* parse_single_dsl_entry: argument `string`
    multiple_date,  \* parse_single_dsl_entry: argument `multiple_date`
    info,           \* parse_single_dsl_entry: the returned dict
    arguments,      \* parse_arguemnt_entries: argument `arguments`
    result,         \* parse_arguemnt_entries: the returned list
    ent,            \* TSV codec: the entry handed to format_entry
    rows,           \* TSV codec: format_entry's rows
    decoded,        \* TSV codec: parse_tsv_entries' entries
    entries,        \* add_sequence_number: the `seq` entry of each dict
    start,          \* add_sequence_number: argument `start`
    overwrite,      \* add_sequence_number: argument `overwrite`
    raised,         \* add_sequence_number: whether the call raised ValueError
    hier,           \* is_hierarchy_valid: the dict, as its (key, value) items
    valid,          \* is_hierarchy_valid: the returned bool
    tag_hier,       \* fix_tag_hierarchy: argument `hier`
    tag_entries,    \* fix_tag_hierarchy: argument `entries`
    orig_entries,   \* the list of entries as it was when the call was made
    ent_i,          \* fix_tag_hierarchy: index of `ent` in the outer loop
    tag_i,          \* fix_tag_hierarchy: index of `t` in the middle loop
    result_set,     \* fix_tag_hierarchy: local `result`
    tag             \* fix_tag_hierarchy: local `tag`

parseVars == <<string, multiple_date, info>>
argVars   == <<arguments, result>>
tsvVars   == <<ent, rows, decoded>>
seqVars   == <<entries, start, overwrite, raised>>
hierVars  == <<hier, valid>>
fixVars   == <<tag_hier, tag_entries, orig_entries, ent_i, tag_i, result_set, tag>>
vars      == <<pc, parseVars, argVars, tsvVars, seqVars, hierVars, fixVars>>

----------------------------------------------------------------------------
(* Characters and strings *)

TAB == "\t"
LF  == "\n"
CR  == "\r"
NUL == "\\0"

\* Every string over the alphabet A of length lo..hi.
StrOver(A, lo, hi) == UNION {[1..n -> A] : n \in lo..hi}

\* Every list over the set S of length lo..hi.
ListOver(S, lo, hi) == UNION {[1..n -> S] : n \in lo..hi}

\* The set of the elements of a sequence.
Range(s) == {s[i] : i \in 1..Len(s)}

\* What is not yet computed.
None == "None"

----------------------------------------------------------------------------
(* parse_single_dsl_entry *)

\* Lines 34-35 left out: no character is skipped.
IsSkippedNone(c) == FALSE

\* The characters lines 34-35 skip.
IsSkipped(c) == c \in {NUL, LF, CR, TAB}

\* store_segment: tags and, under multiple_date, date are appended to; any
\* other segment is assigned, replacing what the key held.
store_segment(seg_type, seg, buf, md) ==
    IF seg_type = "tags" THEN [buf EXCEPT !.tags = Append(@, seg)]
    ELSE IF seg_type = "date" /\ md THEN [buf EXCEPT !.date = Append(@, seg)]
    ELSE [buf EXCEPT ![seg_type] = seg]

\* The segment type a delimiter switches to.
SegmentTypeOf(c) ==
    IF c = "/" THEN "title" ELSE IF c = "@" THEN "date" ELSE "tags"

\* The dict of lines 19-22; the empty str and the empty list are both <<>>.
EmptyInfo == [expense |-> <<>>, title |-> <<>>, date |-> <<>>, tags |-> <<>>]

\* One iteration of the loop of lines 33-49 on character c; st holds the
\* locals info, segment and segment_type.
ScanChar(c, st, md) ==
    IF IsSkipped(c) THEN st
    ELSE IF c \in {"/", "@", ":"} /\ st.segment_type # "title"
    THEN [info         |-> store_segment(st.segment_type, st.segment, st.info, md),
          segment      |-> <<>>,
          segment_type |-> SegmentTypeOf(c)]
    ELSE [st EXCEPT !.segment = Append(@, c)]

RECURSIVE ScanFrom(_, _, _, _)
ScanFrom(s, i, st, md) ==
    IF i > Len(s) THEN st ELSE ScanFrom(s, i + 1, ScanChar(s[i], st, md), md)

parse_single_dsl_entry(s, md) ==
    LET st == ScanFrom(s, 1, [info |-> EmptyInfo, segment |-> <<>>,
                              segment_type |-> "expense"], md)
    IN  store_segment(st.segment_type, st.segment, st.info, md)

----------------------------------------------------------------------------
(* Values of the variables a specification does not use *)

IdleParse == string = <<>> /\ multiple_date = FALSE /\ info = None
IdleArgs  == arguments = <<>> /\ result = None
IdleTsv   == ent = None /\ rows = None /\ decoded = None
IdleSeq   == entries = <<>> /\ start = 0 /\ overwrite = FALSE /\ raised = FALSE
IdleHier  == hier = <<>> /\ valid = None
IdleFix   == /\ tag_hier = <<>> /\ tag_entries = <<>> /\ orig_entries = <<>>
             /\ ent_i = 0 /\ tag_i = 0 /\ result_set = {} /\ tag = None
\* The same for add_sequence_number, which keeps the list it was called with.
IdleFixForSeq == /\ tag_hier = <<>> /\ tag_entries = <<>>
                 /\ ent_i = 0 /\ tag_i = 0 /\ result_set = {} /\ tag = None

----------------------------------------------------------------------------
(* SpecParse: parse_single_dsl_entry applied to every short string *)

MaxStrLen == 4

ParseChars == {"1", "/", "@", ":", TAB, LF, CR, NUL}

InitParse ==
    /\ pc = "call"
    /\ string \in StrOver(ParseChars, 0, MaxStrLen)
    /\ multiple_date \in BOOLEAN
    /\ info = None
    /\ IdleArgs /\ IdleTsv /\ IdleSeq /\ IdleHier /\ IdleFix

ParseSingleDslEntry ==
    /\ pc = "call"
    /\ info' = parse_single_dsl_entry(string, multiple_date)
    /\ pc' = "done"
    /\ UNCHANGED <<string, multiple_date, argVars, tsvVars, seqVars, hierVars, fixVars>>

NextParse == ParseSingleDslEntry

SpecParse == InitParse /\ [][NextParse]_vars

----------------------------------------------------------------------------
(* Claims about parse_single_dsl_entry *)

Min(S) == CHOOSE x \in S : \A y \in S : x <= y

ControlChars == {NUL, LF, CR, TAB}

IsPlainChar(c) == c \notin ControlChars

\* s without its NUL, newline, carriage return and tab characters.
WithoutControlChars(s) == SelectSeq(s, IsPlainChar)

\* s up to, and without, its first '/'.
BeforeTitle(s) ==
    SubSeq(s, 1, Min({i \in 1..Len(s) : s[i] = "/"} \cup {Len(s) + 1}) - 1)

\* The positions of the '@' that open a date segment of p (p holds no '/').
AtPositions(p) == {i \in 1..Len(p) : p[i] = "@"}

\* The content of the date segment that the '@' at position i of p opens:
\* the characters up to the next delimiter or the end.
DateSegmentAt(p, i) ==
    SubSeq(p, i + 1,
           Min({j \in (i + 1)..Len(p) : p[j] \in {"@", ":"}} \cup {Len(p) + 1}) - 1)

\* The date segments of s before any '/', in input order.
DateSegments(s) ==
    LET p  == BeforeTitle(WithoutControlChars(s))
        at == AtPositions(p)
        Kth(k) == CHOOSE i \in at : Cardinality({j \in at : j < i}) = k - 1
    IN  [k \in 1..Cardinality(at) |-> DateSegmentAt(p, Kth(k))]

HasNoDelimiter(s) == \A i \in 1..Len(s) : s[i] \notin {"/", "@", ":"}

\* C6: for a string with two or more '@' date segments before any '/',
\* parse_single_dsl_entry with multiple_date false returns as date the content
\* of the first date segment (first-wins), and with multiple_date true the
\* sequence of all date segments in input order.
C6_FirstDateWins ==
    (pc = "done" /\ Len(DateSegments(string)) >= 2) =>
        IF multiple_date THEN info.date = DateSegments(string)
                         ELSE info.date = DateSegments(string)[1]

\* C7 as stated: a string without '/', '@' and ':' is returned unchanged as
\* expense, control characters included, with title, date and tags empty.
C7_ExpenseIsString ==
    (pc = "done" /\ HasNoDelimiter(string)) =>
        /\ info.expense = string
        /\ info.title = <<>> /\ info.date = <<>> /\ info.tags = <<>>

\* C7 amended: a string without '/', '@' and ':' is returned as expense with
\* its NUL, newline, carriage return and tab characters removed, and title,
\* date and tags are empty.
C7_ExpenseIsStrippedString ==
    (pc = "done" /\ HasNoDelimiter(string)) =>
        /\ info.expense = WithoutControlChars(string)
        /\ info.title = <<>> /\ info.date = <<>> /\ info.tags = <<>>

\* A delimiter-free string that mixes control and plain characters was parsed.
C7_Witness ==
    /\ pc = "done" /\ HasNoDelimiter(string)
    /\ \E i, j \in 1..Len(string) :
           string[i] \in ControlChars /\ string[j] \notin ControlChars
    /\ info.expense # string

----------------------------------------------------------------------------
(* parse_arguemnt_entries *)

\* str.join: the strings of the list, sep between consecutive ones.
RECURSIVE Join(_, _)
Join(list, sep) ==
    IF Len(list) = 0 THEN <<>>
    ELSE IF Len(list) = 1 THEN list[1]
    ELSE list[1] \o sep \o Join(Tail(list), sep)

\* str.replace for one-character old and new.
Replace(s, old, new) == [i \in 1..Len(s) |-> IF s[i] = old THEN new ELSE s[i]]

Digits == {"0", "1", "2", "3", "4", "5", "6", "7", "8", "9"}

\* str.isnumeric, on the characters the model draws: non-empty, digits only.
isnumeric(s) == Len(s) > 0 /\ \A i \in 1..Len(s) : s[i] \in Digits

\* The condition of lines 65-67 without its isnumeric() conjunct.
IsSingleEntryNoNumeric(args) ==
    \/ Len(args) < 2
    \/ Range(args[2]) \cap {"/", ",", "@"} = {}

\* The condition of lines 65-67 with '@' missing from the set of line 66.
IsSingleEntryNoAt(args) ==
    \/ Len(args) < 2
    \/ (Range(args[2]) \cap {"/", ","} = {} /\ ~isnumeric(args[2]))

\* The condition of lines 65-67: the arguments are one entry.
IsSingleEntry(args) ==
    \/ Len(args) < 2
    \/ (Range(args[2]) \cap {"/", ",", "@"} = {} /\ ~isnumeric(args[2]))

parse_arguemnt_entries(args) ==
    IF Len(args) = 0 THEN <<>>
    ELSE IF IsSingleEntry(args)
    THEN <<parse_single_dsl_entry(Replace(Join(args, <<" ">>), " ", "/"), FALSE)>>
    ELSE [i \in 1..Len(args) |-> parse_single_dsl_entry(args[i], FALSE)]

ParseArguemntEntries ==
    /\ pc = "call"
    /\ result' = parse_arguemnt_entries(arguments)
    /\ pc' = "done"
    /\ UNCHANGED <<arguments, parseVars, tsvVars, seqVars, hierVars, fixVars>>

NextArgs == ParseArguemntEntries

----------------------------------------------------------------------------
(* SpecArgs: parse_arguemnt_entries applied to every short list of tokens *)

MaxTokens == 3

\* The tokens "", "1", "12", "a", "1a", "a b", " ", "/", "a/b", ",", "@1", ":a".
ArgTokens ==
    { <<>>, <<"1">>, <<"1", "2">>, <<"a">>, <<"1", "a">>, <<"a", " ", "b">>,
      <<" ">>, <<"/">>, <<"a", "/", "b">>, <<",">>, <<"@", "1">>, <<":", "a">> }

InitArgs ==
    /\ pc = "call"
    /\ arguments \in ListOver(ArgTokens, 0, MaxTokens)
    /\ result = None
    /\ IdleParse /\ IdleTsv /\ IdleSeq /\ IdleHier /\ IdleFix

SpecArgs == InitArgs /\ [][NextArgs]_vars

\* What the claim calls a second token that reads as title text.
SecondTokenIsProse(args) ==
    /\ \A i \in 1..Len(args[2]) : args[2][i] \notin {"/", ",", "@"}
    /\ ~(Len(args[2]) > 0 /\ \A i \in 1..Len(args[2]) : args[2][i] \in Digits)

\* C4 as stated: no entries for no tokens; one entry, the parse of the tokens
\* joined by '/', when there is no second token or the second token holds none
\* of '/', ',', '@' and is not purely numeric; otherwise one entry per token,
\* the i-th the parse of the i-th token.
C4_JoinedBySlash ==
    pc = "done" =>
        IF Len(arguments) = 0 THEN result = <<>>
        ELSE IF Len(arguments) < 2 \/ SecondTokenIsProse(arguments)
        THEN result = <<parse_single_dsl_entry(Join(arguments, <<"/">>), FALSE)>>
        ELSE /\ Len(result) = Len(arguments)
             /\ \A i \in 1..Len(arguments) :
                    result[i] = parse_single_dsl_entry(arguments[i], FALSE)

\* C4 amended: as stated, except that the single entry is the parse of the
\* tokens joined by '/' after every space inside a token is replaced by '/'.
C4_JoinedBySlashSpacesReplaced ==
    pc = "done" =>
        IF Len(arguments) = 0 THEN result = <<>>
        ELSE IF Len(arguments) < 2 \/ SecondTokenIsProse(arguments)
        THEN result = <<parse_single_dsl_entry(
                          Join([i \in 1..Len(arguments) |->
                                    Replace(arguments[i], " ", "/")], <<"/">>),
                          FALSE)>>
        ELSE /\ Len(result) = Len(arguments)
             /\ \A i \in 1..Len(arguments) :
                    result[i] = parse_single_dsl_entry(arguments[i], FALSE)

\* Several tokens, one with a space inside, were parsed as one entry whose
\* expense ends at that space.
C4_Witness ==
    /\ pc = "done" /\ Len(arguments) >= 2 /\ Len(result) = 1
    /\ " " \in Range(arguments[1])
    /\ result[1].expense # arguments[1]
    /\ result[1].title # <<>>

----------------------------------------------------------------------------
(* SpecBatch: parse_arguemnt_entries applied to amount, '@'date, amount,   *)
(* '@'date                                                                  *)

MaxFieldLen == 2

Amounts == StrOver({"1", "."}, 1, MaxFieldLen)

Dates == StrOver({"2", "-"}, 1, MaxFieldLen)

InitBatch ==
    /\ pc = "call"
    /\ \E a1 \in Amounts, d1 \in Dates, a2 \in Amounts, d2 \in Dates :
           arguments = <<a1, <<"@">> \o d1, a2, <<"@">> \o d2>>
    /\ result = None
    /\ IdleParse /\ IdleTsv /\ IdleSeq /\ IdleHier /\ IdleFix

SpecBatch == InitBatch /\ [][NextArgs]_vars

\* C5 as stated: the four tokens amount1, '@'date1, amount2, '@'date2 yield
\* exactly two entries, the first with amount1 and date1, the second with
\* amount2 and date2.
C5_TwoEntries ==
    pc = "done" =>
        /\ Len(result) = 2
        /\ result[1].expense = arguments[1] /\ result[1].date = Tail(arguments[2])
        /\ result[2].expense = arguments[3] /\ result[2].date = Tail(arguments[4])

\* C5 amended: the four tokens yield exactly four entries, one per token in
\* input order: an amount token gives an entry with that expense and no
\* date, a date token gives an entry with that date and no expense; no entry
\* has a title or tags.
C5_FourEntries ==
    pc = "done" =>
        /\ Len(result) = 4
        /\ result[1] = [EmptyInfo EXCEPT !.expense = arguments[1]]
        /\ result[2] = [EmptyInfo EXCEPT !.date = Tail(arguments[2])]
        /\ result[3] = [EmptyInfo EXCEPT !.expense = arguments[3]]
        /\ result[4] = [EmptyInfo EXCEPT !.date = Tail(arguments[4])]

\* Two different amounts with two different dates were parsed.
C5_Witness ==
    /\ pc = "done" /\ Len(arguments) = 4 /\ Len(result) = 4
    /\ arguments[1] # arguments[3] /\ arguments[2] # arguments[4]
    /\ result[2].date # result[4].date /\ result[2].expense = <<>>

----------------------------------------------------------------------------
(* format_entry and parse_tsv_entries *)

Sentinel == <<":", ":", ":", ":">>

ColonColon == <<":", ":">>

\* The row format_entry appends for one entry that has all five keys
\* (lines 110-141).
FormatRow(e) ==
    (IF e.date # <<>> THEN e.date ELSE Sentinel) \o <<TAB>>
    \o (IF e.seq # <<>> THEN e.seq ELSE <<>>) \o <<TAB>>
    \o (IF e.expense # <<>> THEN e.expense ELSE <<>>) \o <<TAB>>
    \o (IF e.title # <<>> THEN e.title ELSE Sentinel) \o <<TAB>>
    \o ColonColon
    \o (IF e.tags # <<>>
        THEN Join(SubSeq(e.tags, 1, Len(e.tags) - 1) \o <<e.tags[Len(e.tags)]>>,
                  ColonColon)
        ELSE <<>>)
    \o ColonColon

format_entry(es) == [i \in 1..Len(es) |-> FormatRow(es[i])]

\* Whether sep occurs in s at position i.
OccursAt(s, sep, i) ==
    /\ i + Len(sep) - 1 <= Len(s)
    /\ SubSeq(s, i, i + Len(sep) - 1) = sep

\* str.split(sep): the pieces between the occurrences of sep, found left to
\* right without overlap.
RECURSIVE Split(_, _)
Split(s, sep) ==
    LET hits == {i \in 1..Len(s) : OccursAt(s, sep, i)}
    IN  IF hits = {} THEN <<s>>
        ELSE LET i == CHOOSE h \in hits : \A g \in hits : h <= g
             IN  <<SubSeq(s, 1, i - 1)>> \o Split(SubSeq(s, i + Len(sep), Len(s)), sep)

Columns == <<"date", "seq", "expense", "title", "tags">>

\* The dict of lines 83-87.
EmptyEntry == [date |-> <<>>, seq |-> <<>>, expense |-> <<>>, title |-> <<>>,
               tags |-> <<>>]

\* The loop of lines 88-95 from the k-th (column, cell) pair of the zip on.
RECURSIVE FillColumns(_, _, _)
FillColumns(cells, k, d) ==
    IF k > Len(cells) \/ k > Len(Columns) THEN d
    ELSE LET name == Columns[k]
             cell == cells[k]
         IN  IF cell = Sentinel THEN FillColumns(cells, k + 1, d)
             ELSE IF name = "tags"
             THEN IF Len(cell) > 3
                  THEN FillColumns(cells, k + 1,
                           [d EXCEPT !.tags =
                                Split(SubSeq(cell, 3, Len(cell) - 2), ColonColon)])
                  ELSE FillColumns(cells, k + 1, d)
             ELSE FillColumns(cells, k + 1, [d EXCEPT ![name] = cell])

ParseRow(row) == FillColumns(Split(row, <<TAB>>), 1, EmptyEntry)

parse_tsv_entries(rs, skip_header) ==
    LET from == IF skip_header THEN 2 ELSE 1
    IN  [i \in 1..(IF Len(rs) >= from THEN Len(rs) - from + 1 ELSE 0) |->
            ParseRow(rs[i + from - 1])]

FormatEntry ==
    /\ pc = "call"
    /\ rows' = format_entry(<<ent>>)
    /\ pc' = "formatted"
    /\ UNCHANGED <<ent, decoded, parseVars, argVars, seqVars, hierVars, fixVars>>

ParseTsvEntries ==
    /\ pc = "formatted"
    /\ decoded' = parse_tsv_entries(rows, FALSE)
    /\ pc' = "done"
    /\ UNCHANGED <<ent, rows, parseVars, argVars, seqVars, hierVars, fixVars>>

NextTsv == FormatEntry \/ ParseTsvEntries

----------------------------------------------------------------------------
(* SpecTsv: one entry encoded by format_entry and decoded by               *)
(* parse_tsv_entries                                                        *)

MaxCellLen == 1

MaxTagLen == 2

MaxTags == 2

\* The values of date, seq, expense and title: short strings, and the
\* sentinel itself.
CellValues == StrOver({"a", ":", TAB}, 0, MaxCellLen) \cup {Sentinel}

TagValues == StrOver({"a", ":"}, 0, MaxTagLen)

InitTsv ==
    /\ pc = "call"
    /\ ent \in [date : CellValues, seq : CellValues, expense : CellValues,
                title : CellValues, tags : ListOver(TagValues, 0, MaxTags)]
    /\ rows = None /\ decoded = None
    /\ IdleParse /\ IdleArgs /\ IdleSeq /\ IdleHier /\ IdleFix

SpecTsv == InitTsv /\ [][NextTsv]_vars

\* C3: unless the entry has no tags, no date and no title, decoding the
\* encoded entry gives exactly one entry with the same date, seq, expense and
\* title and the same set of tags.
C3_RoundTrip ==
    (pc = "done" /\ ~(ent.tags = <<>> /\ ent.date = <<>> /\ ent.title = <<>>)) =>
        /\ Len(decoded) = 1
        /\ decoded[1].date = ent.date
        /\ decoded[1].seq = ent.seq
        /\ decoded[1].expense = ent.expense
        /\ decoded[1].title = ent.title
        /\ Range(decoded[1].tags) = Range(ent.tags)

----------------------------------------------------------------------------
(* add_sequence_number *)

\* An entry is modelled by its 'seq' key: has says whether the dict has the
\* key, seq is the str it holds (<<>> when has is false).
NoSeqKey == [has |-> FALSE, seq |-> <<>>]

DigitChars == <<"0", "1", "2", "3", "4", "5", "6", "7", "8", "9">>

DigitValue(c) == (CHOOSE k \in 1..10 : DigitChars[k] = c) - 1

\* int(s) for a non-empty string of decimal digits.
RECURSIVE int(_)
int(s) ==
    IF Len(s) = 1 THEN DigitValue(s[1])
    ELSE 10 * int(SubSeq(s, 1, Len(s) - 1)) + DigitValue(s[Len(s)])

\* str(n) for n >= 0.
RECURSIVE str(_)
str(n) ==
    IF n < 10 THEN <<DigitChars[n + 1]>>
    ELSE str(n \div 10) \o <<DigitChars[(n % 10) + 1]>>

\* Line 194: int() raises ValueError on the empty str.
IntRaises(e) == e.has /\ e.seq = <<>>

\* The list existing_seq of lines 191-195, as a set (it is only searched).
ExistingSeq(es, st, ow) ==
    IF ow THEN {}
    ELSE {int(es[i].seq) : i \in {k \in 1..Len(es) : es[k].has /\ int(es[k].seq) >= st}}

\* Lines 199-200: the first number from n on that is not in existing.
RECURSIVE SkipExisting(_, _)
SkipExisting(n, existing) ==
    IF n \in existing THEN SkipExisting(n + 1, existing) ELSE n

\* The loop of lines 198-203 from entry i on, seq_num being n.
RECURSIVE AssignFrom(_, _, _, _, _)
AssignFrom(es, i, n, existing, ow) ==
    IF i > Len(es) THEN es
    ELSE LET m == SkipExisting(n, existing)
         IN  IF ~es[i].has \/ es[i].seq = <<>> \/ ow
             THEN AssignFrom([es EXCEPT ![i] = [has |-> TRUE, seq |-> str(m)]],
                             i + 1, m + 1, existing, ow)
             ELSE AssignFrom(es, i + 1, m, existing, ow)

\* The call raises in the first loop, before any entry is written, when
\* overwrite is false and an entry holds the empty str under 'seq'.
add_sequence_number_raises(es, st, ow) ==
    ~ow /\ \E i \in 1..Len(es) : IntRaises(es[i])

add_sequence_number(es, st, ow) ==
    AssignFrom(es, 1, st, ExistingSeq(es, st, ow), ow)

AddSequenceNumber ==
    /\ pc = "call"
    /\ IF add_sequence_number_raises(entries, start, overwrite)
       THEN raised' = TRUE /\ entries' = entries
       ELSE raised' = FALSE
            /\ entries' = add_sequence_number(entries, start, overwrite)
    /\ pc' = "done"
    /\ UNCHANGED <<start, overwrite, parseVars, argVars, tsvVars, hierVars, fixVars>>

NextSeq == AddSequenceNumber

----------------------------------------------------------------------------
(* SpecSeq: add_sequence_number applied to every short list of entries      *)

MaxEntries == 3

MaxSeqLen == 2

MaxStart == 10

\* What an entry holds under 'seq': nothing, the empty str that
\* parse_tsv_entries leaves for an empty column, or a decimal number.
SeqValues ==
    {NoSeqKey} \cup {[has |-> TRUE, seq |-> s] : s \in StrOver({"0", "1", "2"}, 0, MaxSeqLen)}

InitSeq ==
    /\ pc = "call"
    /\ entries \in ListOver(SeqValues, 0, MaxEntries)
    /\ orig_entries = entries
    /\ start \in 0..MaxStart
    /\ overwrite \in BOOLEAN
    /\ raised = FALSE
    /\ IdleParse /\ IdleArgs /\ IdleTsv /\ IdleHier /\ IdleFixForSeq

SpecSeq == InitSeq /\ [][NextSeq]_vars

\* C2: the call returns normally, and afterwards every entry has a non-empty
\* seq and no two entries have the same seq.
C2_SeqAssignedAndUnique ==
    pc = "done" =>
        /\ ~raised
        /\ \A i \in 1..Len(entries) : entries[i].has /\ entries[i].seq # <<>>
        /\ \A i, j \in 1..Len(entries) : i # j => entries[i].seq # entries[j].seq

\* The entries that came with a non-empty seq, and those that lacked one.
HadSeq(i) == orig_entries[i].has /\ orig_entries[i].seq # <<>>

\* The values of the pre-existing seqs that are >= start.
Reserved ==
    {int(orig_entries[i].seq) :
        i \in {k \in 1..Len(orig_entries) : HadSeq(k) /\ int(orig_entries[k].seq) >= start}}

\* The j-th smallest integer >= start that is not reserved.
KthFree(j) ==
    CHOOSE n \in start..(start + j + Cardinality(Reserved)) :
        /\ n \notin Reserved
        /\ Cardinality({m \in start..(n - 1) : m \notin Reserved}) = j - 1

\* C9: with overwrite false every entry that had a non-empty seq keeps it and
\* the j-th entry lacking one receives the j-th smallest integer >= start
\* that is no pre-existing seq >= start; with overwrite true the entry at
\* 0-based position i ends with seq = start + i as decimal text.
C9_AssignedValues ==
    pc = "done" =>
        \A i \in 1..Len(entries) :
            IF overwrite THEN entries[i] = [has |-> TRUE, seq |-> str(start + i - 1)]
            ELSE IF HadSeq(i) THEN entries[i] = orig_entries[i]
            ELSE entries[i] =
                   [has |-> TRUE,
                    seq |-> str(KthFree(Cardinality({k \in 1..i : ~HadSeq(k)})))]

----------------------------------------------------------------------------
(* is_hierarchy_valid *)

\* hier is the list of the dict's (key, value) items in iteration order.
Keys(h) == {h[i][1] : i \in 1..Len(h)}

\* hier[k], for k a key.
Lookup(h, k) == h[CHOOSE i \in 1..Len(h) : h[i][1] = k][2]

\* set(s) for a str s: the set of its characters, each a str of length one.
SetOfStr(s) == {<<s[i]>> : i \in 1..Len(s)}

\* The loop of lines 214-218 from k on: whether it ran to the end of the
\* chain, and history_node as it left it.
RECURSIVE WalkParents(_, _, _)
WalkParents(h, k, history_node) ==
    IF k \notin Keys(h) THEN [ok |-> TRUE, history_node |-> history_node]
    ELSE LET parent == Lookup(h, k)
         IN  IF parent \in history_node
             THEN [ok |-> FALSE, history_node |-> history_node]
             ELSE WalkParents(h, parent, history_node \cup {parent})

\* The loop of lines 209-219 from the i-th key on.
RECURSIVE CheckFrom(_, _, _)
CheckFrom(h, i, valid_nodes) ==
    IF i > Len(h) THEN TRUE
    ELSE LET node_checking == h[i][1]
         IN  IF node_checking \in valid_nodes THEN CheckFrom(h, i + 1, valid_nodes)
             ELSE LET walk == WalkParents(h, node_checking, SetOfStr(node_checking))
                  IN  IF ~walk.ok THEN FALSE
                      ELSE CheckFrom(h, i + 1, valid_nodes \cup walk.history_node)

is_hierarchy_valid(h) == CheckFrom(h, 1, {})

IsHierarchyValid ==
    /\ pc = "call"
    /\ valid' = is_hierarchy_valid(hier)
    /\ pc' = "done"
    /\ UNCHANGED <<hier, parseVars, argVars, tsvVars, seqVars, fixVars>>

NextHier == IsHierarchyValid

----------------------------------------------------------------------------
(* SpecHier: is_hierarchy_valid applied to every small hierarchy            *)

MaxEdges == 3

\* The tag names "a", "b", "ab" and "ba".
TagNames == { <<"a">>, <<"b">>, <<"a", "b">>, <<"b", "a">> }

\* The dicts over TagNames with at most MaxEdges keys, in every key order.
Hierarchies ==
    {h \in ListOver(TagNames \X TagNames, 0, MaxEdges) :
        \A i, j \in 1..Len(h) : i # j => h[i][1] # h[j][1]}

InitHier ==
    /\ pc = "call"
    /\ hier \in Hierarchies
    /\ valid = None
    /\ IdleParse /\ IdleArgs /\ IdleTsv /\ IdleSeq /\ IdleFix

SpecHier == InitHier /\ [][NextHier]_vars

\* The tags n parent steps away from a tag of S.
RECURSIVE ParentsAt(_, _, _)
ParentsAt(h, S, n) ==
    IF n = 0 THEN S
    ELSE ParentsAt(h, {Lookup(h, x) : x \in S \cap Keys(h)}, n - 1)

\* The declared edges contain a directed cycle: some tag is its own ancestor.
HasCycle(h) ==
    \E k \in Keys(h) : \E n \in 1..Len(h) : k \in ParentsAt(h, {k}, n)

\* C1: is_hierarchy_valid returns True exactly when the declared edges
\* contain no directed cycle, whatever strings the tag names are.
C1_ValidIffAcyclic ==
    pc = "done" => (valid <=> ~HasCycle(hier))

----------------------------------------------------------------------------
(* fix_tag_hierarchy, one loop iteration per action *)

\* hier is a function from the child tags to their parents; a tag name is an
\* unanalysed string here, since the function only compares and hashes tags.

\* The guard of the while loop of line 156 testing the child, which result
\* always holds, where the source tests the parent.
WalkGoesOnChildSeen(h, t, res) == t \in DOMAIN h /\ t \notin res

\* The guard of the while loop of line 156 without its second conjunct.
WalkGoesOnUnguarded(h, t, res) == t \in DOMAIN h

\* The guard of the while loop of line 156.
WalkGoesOn(h, t, res) == t \in DOMAIN h /\ h[t] \notin res

\* list(result): the lists that hold every element of the set exactly once;
\* the order of a set's elements is not defined.
ListsOfSet(S) ==
    {l \in [1..Cardinality(S) -> S] : \A i, j \in 1..Cardinality(S) : i # j => l[i] # l[j]}

\* Line 151: the next `ent` of the outer loop, or the return of line 161.
FixNextEntry ==
    /\ pc = "call"
    /\ IF ent_i < Len(tag_entries)
       THEN ent_i' = ent_i + 1 /\ result_set' = {} /\ tag_i' = 0 /\ pc' = "tags"
       ELSE pc' = "done" /\ UNCHANGED <<ent_i, result_set, tag_i>>
    /\ UNCHANGED <<tag_hier, tag_entries, orig_entries, tag,
                   parseVars, argVars, tsvVars, seqVars, hierVars>>

\* Lines 153-155: the next `t` of the middle loop.
FixNextTag ==
    /\ pc = "tags"
    /\ tag_i < Len(tag_entries[ent_i].tags)
    /\ tag_i' = tag_i + 1
    /\ tag' = tag_entries[ent_i].tags[tag_i + 1]
    /\ result_set' = result_set \cup {tag_entries[ent_i].tags[tag_i + 1]}
    /\ pc' = "walk"
    /\ UNCHANGED <<tag_hier, tag_entries, orig_entries, ent_i,
                   parseVars, argVars, tsvVars, seqVars, hierVars>>

\* Lines 156-158: one iteration of the while loop.
FixWalkStep ==
    /\ pc = "walk"
    /\ WalkGoesOn(tag_hier, tag, result_set)
    /\ result_set' = result_set \cup {tag_hier[tag]}
    /\ tag' = tag_hier[tag]
    /\ UNCHANGED <<pc, tag_hier, tag_entries, orig_entries, ent_i, tag_i,
                   parseVars, argVars, tsvVars, seqVars, hierVars>>

\* Line 156: the while loop ends.
FixWalkEnd ==
    /\ pc = "walk"
    /\ ~WalkGoesOn(tag_hier, tag, result_set)
    /\ pc' = "tags"
    /\ UNCHANGED <<tag_hier, tag_entries, orig_entries, ent_i, tag_i, result_set, tag,
                   parseVars, argVars, tsvVars, seqVars, hierVars>>

\* Line 159: the middle loop is over and ent['tags'] is replaced.
FixStoreTags ==
    /\ pc = "tags"
    /\ tag_i >= Len(tag_entries[ent_i].tags)
    /\ \E l \in ListsOfSet(result_set) :
           tag_entries' = [tag_entries EXCEPT ![ent_i].tags = l]
    /\ pc' = "call"
    /\ UNCHANGED <<tag_hier, orig_entries, ent_i, tag_i, result_set, tag,
                   parseVars, argVars, tsvVars, seqVars, hierVars>>

NextFix == FixNextEntry \/ FixNextTag \/ FixWalkStep \/ FixWalkEnd \/ FixStoreTags

----------------------------------------------------------------------------
(* SpecFix: fix_tag_hierarchy applied to every small hierarchy, cyclic ones *)
(* included, and every short list of entries                                *)

MaxFixTags == 2

FixTags == {"espresso", "coffee", "drink"}

\* Every child -> parent mapping over FixTags: chains, self-loops, cycles.
FixHierarchies == UNION {[D -> FixTags] : D \in SUBSET FixTags}

\* An entry of the list: its tags vary, its other keys hold fixed text.
FixEntries ==
    {[date |-> <<"d">>, seq |-> <<"1">>, expense |-> <<"5">>, title |-> <<"t">>,
      tags |-> l] : l \in ListOver(FixTags, 0, MaxFixTags)}

RECURSIVE TagCount(_)
TagCount(es) == IF es = <<>> THEN 0 ELSE Len(es[1].tags) + TagCount(Tail(es))

\* The lists of at most MaxFixTags entries that hold at most MaxFixTags tags
\* in all.
FixEntryLists ==
    {es \in ListOver(FixEntries, 0, MaxFixTags) : TagCount(es) <= MaxFixTags}

InitFix ==
    /\ pc = "call"
    /\ tag_hier \in FixHierarchies
    /\ tag_entries \in FixEntryLists
    /\ orig_entries = tag_entries
    /\ ent_i = 0 /\ tag_i = 0 /\ result_set = {} /\ tag = None
    /\ IdleParse /\ IdleArgs /\ IdleTsv /\ IdleSeq /\ IdleHier

SpecFix == InitFix /\ [][NextFix]_vars

\* The loops run as long as they can: the interpreter never stops midway.
SpecFixFair == SpecFix /\ WF_vars(NextFix)

\* The tag t and all its transitive parents under h.
RECURSIVE AncestorsWithin(_, _, _)
AncestorsWithin(h, S, n) ==
    IF n = 0 THEN S
    ELSE AncestorsWithin(h, S \cup {h[x] : x \in S \cap DOMAIN h}, n - 1)

Closure(h, t) == AncestorsWithin(h, {t}, Cardinality(DOMAIN h))

\* No tag is its own ancestor under h.
IsAcyclic(h) ==
    \A t \in DOMAIN h : t \notin AncestorsWithin(h, {h[t]}, Cardinality(DOMAIN h))

NoDuplicates(l) == \A i, j \in 1..Len(l) : i # j => l[i] # l[j]

\* C8: for an acyclic hierarchy, after fix_tag_hierarchy each entry's tags
\* hold no duplicate and are, as a set, the union over the entry's original
\* tags of the tag and all its transitive parents; no other field changes.
C8_TagsAreAncestorClosure ==
    (pc = "done" /\ IsAcyclic(tag_hier)) =>
        /\ Len(tag_entries) = Len(orig_entries)
        /\ \A i \in 1..Len(tag_entries) :
               /\ NoDuplicates(tag_entries[i].tags)
               /\ Range(tag_entries[i].tags) =
                      UNION {Closure(tag_hier, t) : t \in Range(orig_entries[i].tags)}
               /\ [tag_entries[i] EXCEPT !.tags = <<>>]
                      = [orig_entries[i] EXCEPT !.tags = <<>>]

\* An entry whose first tag is the parent of its second tag, under a chain of
\* three tags, was resolved.
C8_Witness ==
    /\ pc = "done" /\ IsAcyclic(tag_hier)
    /\ \E i \in 1..Len(orig_entries) :
           /\ Len(orig_entries[i].tags) = 2
           /\ orig_entries[i].tags[2] \in DOMAIN tag_hier
           /\ tag_hier[orig_entries[i].tags[2]] = orig_entries[i].tags[1]
           /\ orig_entries[i].tags[1] \in DOMAIN tag_hier
           /\ Cardinality(Range(tag_entries[i].tags)) = 3

\* Each entry's tags are closed under parent lookup and hold every original
\* tag of the entry.
ClosedAndComplete ==
    \A i \in 1..Len(tag_entries) :
        /\ \A x \in Range(tag_entries[i].tags) :
               x \in DOMAIN tag_hier => tag_hier[x] \in Range(tag_entries[i].tags)
        /\ Range(orig_entries[i].tags) \subseteq Range(tag_entries[i].tags)

\* C10: fix_tag_hierarchy terminates for every finite hierarchy, cyclic ones
\* included, and on termination each entry's tags are closed under parent
\* lookup and contain every original tag of the entry.
C10_TerminatesClosed ==
    /\ <>(pc = "done")
    /\ [](pc = "done" => ClosedAndComplete)

\* The call returned for a hierarchy with a cycle that an entry's tags enter.
C10_Witness ==
    /\ pc = "done" /\ ~IsAcyclic(tag_hier)
    /\ \E i \in 1..Len(orig_entries) : \E t \in Range(orig_entries[i].tags) :
           /\ t \in DOMAIN tag_hier
           /\ t \in AncestorsWithin(tag_hier, {tag_hier[t]}, Cardinality(DOMAIN tag_hier))
           /\ tag_hier[t] # t

============================================================================
